---------------------------- MODULE Spec2Model ----------------------------
(***************************************************************************)
(* Model of the entity extraction pipeline of AssignmentNER:               *)
(*   app/ner_service.py       _chunk_text, NERProvider.extract             *)
(*   app/entity_processor.py  _merge_adjacent, _clean_word, _is_valid,     *)
(*                            aggregate                                    *)
(* A Python str is a sequence of characters; a character is a one-element  *)
(* TLA+ string (the non-ASCII characters of the source carry a name).      *)
(* A Python dict is a function whose DOMAIN is the set of keys it holds.   *)
(***************************************************************************)
EXTENDS Integers, Sequences, FiniteSets, TLC

(***************************************************************************)
(* Characters and the str methods the source uses                          *)
(***************************************************************************)
UpperSeq ==
    << "A", "B", "C", "D", "E", "F", "G", "H", "I", "J", "K", "L", "M",
       "N", "O", "P", "Q", "R", "S", "T", "U", "V", "W", "X", "Y", "Z" >>

LowerSeq ==
    << "a", "b", "c", "d", "e", "f", "g", "h", "i", "j", "k", "l", "m",
       "n", "o", "p", "q", "r", "s", "t", "u", "v", "w", "x", "y", "z" >>

UpperChars == { UpperSeq[i] : i \in 1..Len(UpperSeq) }

LowerChars == { LowerSeq[i] : i \in 1..Len(LowerSeq) }

DigitChars == { "0", "1", "2", "3", "4", "5", "6", "7", "8", "9" }

\* \s of the re module and the whitespace of str.strip() / str.split()
SpaceChars == { " ", "\n", "\t" }

\* U+0120 and U+2581 (byte-pair word-start markers), U+2013 and U+2014 (dashes)
GDot == "G_DOT"

\* U+0121, the lowercase form of U+0120 (which str counts as an uppercase letter)
GDotLower == "G_DOT_LOWER"

LowBar == "LOW_BAR"

EnDash == "EN_DASH"

EmDash == "EM_DASH"

\* the grave accent, which a TLA+ string cannot hold
Backtick == "BACKTICK"

\* the cased characters of the model's alphabet, as str.isupper(),
\* str.islower() and str.lower() see them ([A-Z] and [a-z] see ASCII only)
CasedUpper == UpperChars \cup { GDot }

CasedLower == LowerChars \cup { GDotLower }

IsSpace(c) == c \in SpaceChars

\* str.lower() of one character
LowerChar(c) ==
    IF c \in UpperChars
    THEN LowerSeq[CHOOSE i \in 1..Len(UpperSeq) : UpperSeq[i] = c]
    ELSE IF c = GDot THEN GDotLower ELSE c

\* str.lower()
Lower(s) == [i \in 1..Len(s) |-> LowerChar(s[i])]

\* str.isupper(): at least one cased character and no lowercase one
IsUpperStr(s) ==
    /\ \E i \in 1..Len(s) : s[i] \in CasedUpper
    /\ \A i \in 1..Len(s) : s[i] \notin CasedLower

\* str.islower() of one character
IsLowerChar(c) == c \in CasedLower

\* s.strip(chars): drop the leading and trailing characters that are in chars
StripChars(s, chars) ==
    LET keep == { i \in 1..Len(s) : s[i] \notin chars }
    IN  IF keep = {} THEN << >>
        ELSE SubSeq(s, CHOOSE i \in keep : \A j \in keep : i <= j,
                       CHOOSE i \in keep : \A j \in keep : i >= j)

\* s.strip()
Strip(s) == StripChars(s, SpaceChars)

\* re.sub(r"\s+", " ", s)
RECURSIVE CollapseFrom(_, _)
CollapseFrom(s, i) ==
    IF i > Len(s) THEN << >>
    ELSE IF IsSpace(s[i])
         THEN IF i > 1 /\ IsSpace(s[i - 1])
              THEN CollapseFrom(s, i + 1)
              ELSE << " " >> \o CollapseFrom(s, i + 1)
         ELSE << s[i] >> \o CollapseFrom(s, i + 1)

\* re.sub(r"\s+", " ", s).strip()
NormSpace(s) == Strip(CollapseFrom(s, 1))

\* re.sub(r"\s+", "", s)
RemoveSpace(s) == SelectSeq(s, LAMBDA c : ~IsSpace(c))

\* s.split(): the maximal runs of non-whitespace characters
RECURSIVE SplitFrom(_, _, _, _)
SplitFrom(s, i, cur, acc) ==
    IF i > Len(s)
    THEN IF cur = << >> THEN acc ELSE Append(acc, cur)
    ELSE IF IsSpace(s[i])
         THEN SplitFrom(s, i + 1, << >>,
                        IF cur = << >> THEN acc ELSE Append(acc, cur))
         ELSE SplitFrom(s, i + 1, Append(cur, s[i]), acc)

Split(s) == SplitFrom(s, 1, << >>, << >>)

\* sep.join(parts)
RECURSIVE Join(_, _)
Join(parts, sep) ==
    IF parts = << >> THEN << >>
    ELSE IF Len(parts) = 1 THEN parts[1]
         ELSE parts[1] \o sep \o Join(Tail(parts), sep)

\* the first index >= i of s that holds no whitespace (Len(s) + 1 if none)
RECURSIVE SkipSpace(_, _)
SkipSpace(s, i) ==
    IF i <= Len(s) /\ IsSpace(s[i]) THEN SkipSpace(s, i + 1) ELSE i

\* the last index <= i of s that holds no whitespace (0 if none)
RECURSIVE SkipSpaceBack(_, _)
SkipSpaceBack(s, i) ==
    IF i >= 1 /\ IsSpace(s[i]) THEN SkipSpaceBack(s, i - 1) ELSE i

(***************************************************************************)
(* entity_processor.py: constants                                          *)
(***************************************************************************)
_MIN_ENTITY_LENGTH == 2

_MERGE_GAP == 3

\* the set of line 22 without VULID
_COLLAPSE_SPACE_CLASSES_NoVulid ==
    { "SHA1", "SHA2", "MD5", "FILE", "URL", "EMAIL", "IP", "DOM" }

_COLLAPSE_SPACE_CLASSES ==
    { "VULID", "SHA1", "SHA2", "MD5", "FILE", "URL", "EMAIL", "IP", "DOM" }

_CAMELCASE_COLLAPSE_CLASSES == { "TOOL", "MAL", "APT", "ENCR" }

\* the alternatives of _IOB_TAG_RE, in the order the regex tries them,
\* lowercased (the regex is compiled with re.IGNORECASE)
IOBNames ==
    << << "s", "e", "c", "t", "e", "a", "m" >>, << "s", "e", "c" >>,
       << "h", "a", "c", "k", "o", "r", "g" >>, << "o", "r", "g" >>,
       << "m", "a", "l" >>, << "t", "o", "o", "l" >>, << "a", "c", "t" >>,
       << "a", "p", "t" >>, << "t", "i", "m", "e" >>, << "l", "o", "c" >>,
       << "i", "d", "t", "y" >>, << "e", "n", "c", "r" >>,
       << "f", "i", "l", "e" >>, << "p", "r", "o", "t" >>,
       << "v", "u", "l", "n", "a", "m", "e" >>, << "v", "u", "l", "i", "d" >>,
       << "o", "s" >>, << "s", "h", "a", "2" >>, << "s", "h", "a", "1" >>,
       << "m", "d", "5" >>, << "u", "r", "l" >>, << "i", "p" >>,
       << "d", "o", "m" >>, << "e", "m", "a", "i", "l" >> >>

\* the characters of the strip() call of step 6
OuterJunk ==
    { "\"", "'", Backtick, ".", ",", ";", ":", "!", "?", "(", ")", "[", "]",
      "{", "}", "|", "\\", "/", "@", "#", "$", "%", "^", "&", "*", "+",
      "=", "~", "<", ">", "-", " " }

(***************************************************************************)
(* _clean_word, step by step                                               *)
(***************************************************************************)
\* step 1: re.sub(r"^[<U+0120><U+2581>#]+", "", word), then whitespace runs -> " ", strip
RECURSIVE DropMarkers(_)
DropMarkers(s) ==
    IF s # << >> /\ s[1] \in { GDot, LowBar, "#" }
    THEN DropMarkers(Tail(s))
    ELSE s

CleanBPE(word) == NormSpace(DropMarkers(word))

\* the end (exclusive) of a match of [BI]-(?:name|...) at index j, 0 if none
IOBTagEnd(s, j) ==
    IF /\ j + 1 <= Len(s)
       /\ LowerChar(s[j]) \in { "b", "i" }
       /\ s[j + 1] = "-"
    THEN LET fits(k) ==
                 /\ j + 1 + Len(IOBNames[k]) <= Len(s)
                 /\ Lower(SubSeq(s, j + 2, j + 1 + Len(IOBNames[k])))
                        = IOBNames[k]
             hits == { k \in 1..Len(IOBNames) : fits(k) }
         IN  IF hits = {} THEN 0
             ELSE j + 2
                  + Len(IOBNames[CHOOSE k \in hits : \A m \in hits : k <= m])
    ELSE 0

\* _IOB_TAG_RE.sub(" ", s): leftmost non-overlapping matches of
\* \s*[BI]-(?:...)\s*, scanning from index i
RECURSIVE SubIOB(_, _)
SubIOB(s, i) ==
    IF i > Len(s) THEN << >>
    ELSE LET e == IOBTagEnd(s, SkipSpace(s, i))
         IN  IF e > 0
             THEN << " " >> \o SubIOB(s, SkipSpace(s, e))
             ELSE << s[i] >> \o SubIOB(s, i + 1)

\* step 2
CleanIOB(word) == Strip(SubIOB(word, 1))

\* step 3 without the short-second-part rule of lines 102-104
CleanFragments_NoShort(word, entity_class) ==
    IF entity_class \in _COLLAPSE_SPACE_CLASSES
    THEN RemoveSpace(word)
    ELSE LET parts == Split(word)
         IN  IF /\ Len(parts) >= 3
                /\ \A k \in 2..Len(parts) : Len(parts[k]) <= 3
             THEN Join(parts, << >>)
             ELSE IF Len(parts) = 2
                  THEN LET p0 == parts[1]
                           p1 == parts[2]
                       IN  IF IsLowerChar(p1[1]) THEN p0 \o p1
                           ELSE IF IsUpperStr(p0) /\ IsUpperStr(p1)
                                THEN p0 \o p1
                           ELSE IF entity_class
                                       \in _CAMELCASE_COLLAPSE_CLASSES
                                THEN p0 \o p1
                           ELSE word
                  ELSE word

\* step 3
CleanFragments(word, entity_class) ==
    IF entity_class \in _COLLAPSE_SPACE_CLASSES
    THEN RemoveSpace(word)
    ELSE LET parts == Split(word)
         IN  IF /\ Len(parts) >= 3
                /\ \A k \in 2..Len(parts) : Len(parts[k]) <= 3
             THEN Join(parts, << >>)
             ELSE IF Len(parts) = 2
                  THEN LET p0 == parts[1]
                           p1 == parts[2]
                       IN  IF IsLowerChar(p1[1]) THEN p0 \o p1
                           ELSE IF Len(p1) <= 2 THEN p0 \o p1
                           ELSE IF IsUpperStr(p0) /\ IsUpperStr(p1)
                                THEN p0 \o p1
                           ELSE IF entity_class
                                       \in _CAMELCASE_COLLAPSE_CLASSES
                                THEN p0 \o p1
                           ELSE word
                  ELSE word

\* step 4, first half, without the lower limit of 4 characters of line 116
DedupeChars_FromTwo(word) ==
    LET half == Len(word)
        mid  == half \div 2
    IN  IF /\ half >= 2
           /\ half % 2 = 0
           /\ Strip(SubSeq(word, 1, mid)) = Strip(SubSeq(word, mid + 1, half))
        THEN Strip(SubSeq(word, 1, mid))
        ELSE word

\* step 4, first half: the two character halves are equal after trimming
DedupeChars(word) ==
    LET half == Len(word)
        mid  == half \div 2
    IN  IF /\ half >= 4
           /\ half % 2 = 0
           /\ Strip(SubSeq(word, 1, mid)) = Strip(SubSeq(word, mid + 1, half))
        THEN Strip(SubSeq(word, 1, mid))
        ELSE word

\* step 4, second half: the two halves of the token list are equal
DedupeParts(word) ==
    LET parts  == Split(word)
        half_p == Len(parts) \div 2
    IN  IF /\ Len(parts) >= 2
           /\ Len(parts) % 2 = 0
           /\ SubSeq(parts, 1, half_p) = SubSeq(parts, half_p + 1, Len(parts))
        THEN Join(SubSeq(parts, 1, half_p), << " " >>)
        ELSE word

CleanDuplicate(word) == DedupeParts(DedupeChars(NormSpace(word)))

\* step 5: re.sub(r"(?<=\s)[A-Z](?=\s)", "", word), then NormSpace
RECURSIVE DropLoneFrom(_, _)
DropLoneFrom(s, i) ==
    IF i > Len(s) THEN << >>
    ELSE IF /\ s[i] \in UpperChars
            /\ i > 1 /\ IsSpace(s[i - 1])
            /\ i < Len(s) /\ IsSpace(s[i + 1])
         THEN DropLoneFrom(s, i + 1)
         ELSE << s[i] >> \o DropLoneFrom(s, i + 1)

CleanLoneLetters(word) == NormSpace(DropLoneFrom(word, 1))

\* re.sub(r"[<U+2013><U+2014>]+$", "", s)
RECURSIVE DropTrailingDashes(_)
DropTrailingDashes(s) ==
    IF s # << >> /\ s[Len(s)] \in { EnDash, EmDash }
    THEN DropTrailingDashes(SubSeq(s, 1, Len(s) - 1))
    ELSE s

\* step 6
CleanOuter(word) == Strip(DropTrailingDashes(StripChars(word, OuterJunk)))

\* step 7: re.sub(r"\s*'s?$", "", word).strip()
CleanPossessive(word) ==
    LET n == Len(word)
        q == IF n >= 1 /\ word[n] = "'" THEN n
             ELSE IF n >= 2 /\ word[n] = "s" /\ word[n - 1] = "'" THEN n - 1
             ELSE 0
    IN  IF q = 0 THEN Strip(word)
        ELSE Strip(SubSeq(word, 1, SkipSpaceBack(word, q - 1)))

\* step 8: re.sub(r"\s*-?\s*Exp$", "", word).strip()
CleanExp(word) ==
    LET n == Len(word)
    IN  IF n >= 3 /\ SubSeq(word, n - 2, n) = << "E", "x", "p" >>
        THEN LET a == SkipSpaceBack(word, n - 3)
                 b == IF a >= 1 /\ word[a] = "-"
                      THEN SkipSpaceBack(word, a - 1)
                      ELSE a
             IN  Strip(SubSeq(word, 1, b))
        ELSE Strip(word)

_clean_word(word, entity_class) ==
    NormSpace(
      CleanExp(
        CleanPossessive(
          CleanOuter(
            CleanLoneLetters(
              CleanDuplicate(
                CleanFragments(CleanIOB(CleanBPE(word)), entity_class)))))))

\* the value of the local word after steps 1 (line 82), 2 (line 85),
\* 3 (line 111) and 4 (line 125) of that call
CleanSteps(word, entity_class) ==
    LET bpe  == CleanBPE(word)
        iob  == CleanIOB(bpe)
        frag == CleanFragments(iob, entity_class)
        dup  == CleanDuplicate(frag)
    IN  << bpe, iob, frag, dup >>

\* _is_valid without the length test of lines 149-150
_is_valid_NoLength(word) ==
    \E i \in 1..Len(word) :
        word[i] \in UpperChars \cup LowerChars \cup DigitChars

_is_valid(word) ==
    /\ Len(word) >= _MIN_ENTITY_LENGTH
    /\ \E i \in 1..Len(word) :
           word[i] \in UpperChars \cup LowerChars \cup DigitChars

(***************************************************************************)
(* dict and list helpers                                                   *)
(***************************************************************************)
\* d.get(k, default) of a prediction record
Get(d, k, default) == IF k \in DOMAIN d THEN d[k] ELSE default

\* None in an offset field (line 57 stores it when neither record has an
\* "end"); the offsets themselves are >= 0
None == -1

\* the default score 1.0 of lines 58-60, in hundredths like every score
DefaultScore == 100

\* An insertion-ordered dict (Python 3.7+): the sequence of its
\* << key, value >> items, in the order the keys were first set
DictHas(d, k) == \E i \in 1..Len(d) : d[i][1] = k

DictGet(d, k, default) ==
    IF DictHas(d, k)
    THEN d[CHOOSE i \in 1..Len(d) : d[i][1] = k][2]
    ELSE default

\* d[k] = v: a new key goes last, a known key keeps its place
DictSet(d, k, v) ==
    IF DictHas(d, k)
    THEN [i \in 1..Len(d) |-> IF d[i][1] = k THEN << k, v >> ELSE d[i]]
    ELSE Append(d, << k, v >>)

Min2(a, b) == IF a <= b THEN a ELSE b

(***************************************************************************)
(* _merge_adjacent                                                         *)
(***************************************************************************)
\* line 51: nxt.get("entity_group") == current.get("entity_group")
SameGroup(current, nxt) ==
    IF "entity_group" \in DOMAIN nxt
    THEN /\ "entity_group" \in DOMAIN current
         /\ nxt["entity_group"] = current["entity_group"]
    ELSE "entity_group" \notin DOMAIN current

\* line 52: the subtraction raises TypeError when current["end"] is None
GapRaises(current) == Get(current, "end", 0) = None

Gap(current, nxt) == Get(nxt, "start", 0) - Get(current, "end", 0)

\* line 53 with < for <=
Adjacent_Strict(gap) == gap < _MERGE_GAP

\* line 53
Adjacent(gap) == gap <= _MERGE_GAP

\* lines 56-60 with the score of the record folded in, not the minimum
Fold_LastScore(current, nxt) ==
    [k \in DOMAIN current \cup { "word", "end", "score" } |->
        IF k = "word"
        THEN Get(current, "word", << >>) \o << " " >> \o Get(nxt, "word", << >>)
        ELSE IF k = "end"
        THEN Get(nxt, "end", Get(current, "end", None))
        ELSE IF k = "score"
        THEN Get(nxt, "score", DefaultScore)
        ELSE current[k]]

\* lines 56-60: the three item assignments on current
Fold(current, nxt) ==
    [k \in DOMAIN current \cup { "word", "end", "score" } |->
        IF k = "word"
        THEN Get(current, "word", << >>) \o << " " >> \o Get(nxt, "word", << >>)
        ELSE IF k = "end"
        THEN Get(nxt, "end", Get(current, "end", None))
        ELSE IF k = "score"
        THEN Min2(Get(current, "score", DefaultScore),
                  Get(nxt, "score", DefaultScore))
        ELSE current[k]]

\* lines 50-66: the loop from raw_entities[i] on, and the return
RECURSIVE MergeLoop(_, _, _, _)
MergeLoop(raw_entities, i, merged, current) ==
    IF i > Len(raw_entities)
    THEN [raised |-> FALSE, value |-> Append(merged, current)]
    ELSE LET nxt == raw_entities[i]
         IN  IF GapRaises(current)
             THEN [raised |-> TRUE, value |-> << >>]
             ELSE IF SameGroup(current, nxt) /\ Adjacent(Gap(current, nxt))
                  THEN MergeLoop(raw_entities, i + 1, merged,
                                 Fold(current, nxt))
                  ELSE MergeLoop(raw_entities, i + 1,
                                 Append(merged, current), nxt)

\* the call: [raised |-> TRUE] when it ends in a TypeError, else the list
_merge_adjacent(raw_entities) ==
    IF raw_entities = << >>
    THEN [raised |-> FALSE, value |-> << >>]
    ELSE MergeLoop(raw_entities, 2, << >>, raw_entities[1])

\* The same call on objects: heap is the sequence of the dict objects there
\* are, an object's place in it is its reference; the first objects are the
\* dicts of the argument list.
\* current = raw_entities[0] without dict(): current is the argument's dict
CopyDict_Alias(heap, ref) == [heap |-> heap, ref |-> ref]

\* lines 45 and 63: dict(d) makes a new object with the items of d
CopyDict(heap, ref) == [heap |-> Append(heap, heap[ref]), ref |-> Len(heap) + 1]

\* lines 47-63: the heap after the loop from the i-th of the n argument
\* dicts on; the item assignments of lines 56-60 write the object current
\* refers to
RECURSIVE MergeObjects(_, _, _, _)
MergeObjects(heap, n, i, current) ==
    IF i > n \/ GapRaises(heap[current])
    THEN heap
    ELSE IF /\ SameGroup(heap[current], heap[i])
            /\ Adjacent(Gap(heap[current], heap[i]))
         THEN MergeObjects(
                  [heap EXCEPT ![current] = Fold(heap[current], heap[i])],
                  n, i + 1, current)
         ELSE LET c == CopyDict(heap, i)
              IN  MergeObjects(c.heap, n, i + 1, c.ref)

\* the argument list as the caller finds it after the call (also when the
\* call raised): the list object is only read (lines 42, 45, 47)
InputAfterMerge(raw_entities) ==
    IF raw_entities = << >>
    THEN raw_entities
    ELSE LET c == CopyDict(raw_entities, 1)
         IN  SubSeq(MergeObjects(c.heap, Len(raw_entities), 2, c.ref),
                    1, Len(raw_entities))

(***************************************************************************)
(* config.py: ENTITY_META (the labels)                                     *)
(***************************************************************************)
ENTITY_META ==
    [ TIME    |-> "Time Reference",
      LOC     |-> "Location",
      SECTEAM |-> "Security Team",
      TOOL    |-> "Tool / Software",
      IDTY    |-> "Identity / Person",
      MAL     |-> "Malware",
      APT     |-> "Advanced Persistent Threat",
      VULNAME |-> "Vulnerability Name",
      VULID   |-> "Vulnerability ID",
      ENCR    |-> "Encryption Method",
      FILE    |-> "File",
      SHA2    |-> "SHA-256 Hash",
      URL     |-> "URL",
      IP      |-> "IP Address",
      ACT     |-> "Action / Activity",
      MD5     |-> "MD5 Hash",
      DOM     |-> "Domain",
      OS      |-> "Operating System",
      SHA1    |-> "SHA-1 Hash",
      EMAIL   |-> "Email Address",
      PROT    |-> "Protocol" ]

\* a lookup without the fallback to the class code
Description_NoFallback(cls) ==
    IF cls \in DOMAIN ENTITY_META THEN ENTITY_META[cls] ELSE "Unknown"

\* ENTITY_META.get(cls, {}).get("label", cls)
Description(cls) ==
    IF cls \in DOMAIN ENTITY_META THEN ENTITY_META[cls] ELSE cls

(***************************************************************************)
(* aggregate                                                               *)
(***************************************************************************)
\* lines 167-172: raw_counter after the mentions merged[i..] are counted
RECURSIVE FirstPass(_, _, _)
FirstPass(merged, i, raw_counter) ==
    IF i > Len(merged) THEN raw_counter
    ELSE LET ent   == merged[i]
             group == Get(ent, "entity_group", "")
             word  == _clean_word(Get(ent, "word", << >>), group)
         IN  IF group # "" /\ _is_valid(word)
             THEN FirstPass(merged, i + 1,
                      DictSet(raw_counter, << group, word >>,
                              DictGet(raw_counter, << group, word >>, 0) + 1))
             ELSE FirstPass(merged, i + 1, raw_counter)

\* line 180 with >= for >: the casing seen last wins a tie
TakesOver_OnTie(raw_counter, canonical, key, cls, cnt) ==
    \/ ~DictHas(canonical, key)
    \/ cnt >= DictGet(raw_counter, << cls, DictGet(canonical, key, << >>) >>, 0)

\* line 180: does this casing replace the canonical one of its key
TakesOver(raw_counter, canonical, key, cls, cnt) ==
    \/ ~DictHas(canonical, key)
    \/ cnt > DictGet(raw_counter, << cls, DictGet(canonical, key, << >>) >>, 0)

\* line 179 with = for +=
AddCount_Overwrite(counter, key, cnt) == DictSet(counter, key, cnt)

\* line 179: counter[key] += cnt on a defaultdict(int)
AddCount(counter, key, cnt) ==
    DictSet(counter, key, DictGet(counter, key, 0) + cnt)

\* lines 175-181: canonical and counter after raw_counter's items i.. are done
RECURSIVE SecondPass(_, _, _, _)
SecondPass(raw_counter, i, canonical, counter) ==
    IF i > Len(raw_counter)
    THEN [canonical |-> canonical, counter |-> counter]
    ELSE LET cls  == raw_counter[i][1][1]
             word == raw_counter[i][1][2]
             cnt  == raw_counter[i][2]
             key  == << cls, Lower(word) >>
         IN  SecondPass(raw_counter, i + 1,
                 IF TakesOver(raw_counter, canonical, key, cls, cnt)
                 THEN DictSet(canonical, key, word)
                 ELSE canonical,
                 AddCount(counter, key, cnt))

\* a sort that puts x before the items of its own count (not stable)
InsertByCount_Unstable(sorted, x) ==
    LET smaller == { i \in 1..Len(sorted) : sorted[i][2] <= x[2] }
        at == IF smaller = {} THEN Len(sorted) + 1
              ELSE CHOOSE i \in smaller : \A j \in smaller : i <= j
    IN  SubSeq(sorted, 1, at - 1) \o << x >> \o SubSeq(sorted, at, Len(sorted))

\* one step of a stable sort by descending count: x goes after every item
\* whose count is not smaller than its own
InsertByCount(sorted, x) ==
    LET smaller == { i \in 1..Len(sorted) : sorted[i][2] < x[2] }
        at == IF smaller = {} THEN Len(sorted) + 1
              ELSE CHOOSE i \in smaller : \A j \in smaller : i <= j
    IN  SubSeq(sorted, 1, at - 1) \o << x >> \o SubSeq(sorted, at, Len(sorted))

\* line 190: sorted(counter.items(), key=lambda x: -x[1])
RECURSIVE SortedByCount(_, _, _)
SortedByCount(items, i, sorted) ==
    IF i > Len(items) THEN sorted
    ELSE SortedByCount(items, i + 1, InsertByCount(sorted, items[i]))

\* lines 183-191: one row per item of the sorted counter
Rows(canonical, counter) ==
    LET items == SortedByCount(counter, 1, << >>)
    IN  [i \in 1..Len(items) |->
            [ Class       |-> items[i][1][1],
              Description |-> Description(items[i][1][1]),
              Entity      |-> DictGet(canonical, items[i][1], << >>),
              Count       |-> items[i][2] ]]

\* lines 166-192, from the merged list on
Tabulate(merged) ==
    LET raw_counter == FirstPass(merged, 1, << >>)
        second      == SecondPass(raw_counter, 1, << >>, << >>)
    IN  Rows(second.canonical, second.counter)

\* the call: [raised |-> TRUE] when _merge_adjacent raises, else the rows
aggregate(raw_entities) ==
    LET m == _merge_adjacent(raw_entities)
    IN  IF m.raised
        THEN [raised |-> TRUE, value |-> << >>]
        ELSE [raised |-> FALSE, value |-> Tabulate(m.value)]

(***************************************************************************)
(* summary_stats                                                           *)
(***************************************************************************)
\* df["Count"].sum()
RECURSIVE CountSum(_)
CountSum(rows) ==
    IF rows = << >> THEN 0
    ELSE rows[1].Count + CountSum(Tail(rows))

\* total_mentions as the number of rows
summary_stats_RowCount(rows) ==
    [ unique_classes  |-> Cardinality({ rows[r].Class : r \in 1..Len(rows) }),
      unique_entities |-> Len(rows),
      total_mentions  |-> Len(rows) ]

summary_stats(rows) ==
    [ unique_classes  |-> Cardinality({ rows[r].Class : r \in 1..Len(rows) }),
      unique_entities |-> Len(rows),
      total_mentions  |-> CountSum(rows) ]

(***************************************************************************)
(* filter_by_query                                                         *)
(***************************************************************************)
\* the characters of the class codes and labels that the filtered tables hold
Text ==
    ("MAL" :> << "M", "A", "L" >>) @@
    ("Malware" :> << "M", "a", "l", "w", "a", "r", "e" >>) @@
    ("IP" :> << "I", "P" >>) @@
    ("IP Address" :> << "I", "P", " ", "A", "d", "d", "r", "e", "s", "s" >>)

\* re.compile(query) raises: of the characters the queries are made of
\* (letters, the space, "." and "("), "(" opens a group that nothing closes
PatternRaises(pattern) == \E k \in 1..Len(pattern) : pattern[k] = "("

\* the pattern matches text at position at, under re.IGNORECASE; "." stands
\* for any character but a newline, every other character for itself
MatchesAt(pattern, text, at) ==
    /\ at + Len(pattern) - 1 <= Len(text)
    /\ \A k \in 1..Len(pattern) :
          IF pattern[k] = "."
          THEN text[at + k - 1] # "\n"
          ELSE LowerChar(pattern[k]) = LowerChar(text[at + k - 1])

\* Series.str.contains(query, case=False, na=False) for one cell: regex=True
\* is the default, so the query is searched as a regular expression
Contains(text, pattern) == \E at \in 1..(Len(text) + 1) : MatchesAt(pattern, text, at)

\* lines 199-208: [raised |-> TRUE] when the pattern does not compile
filter_by_query(rows, qry) ==
    LET stripped == Strip(qry)
        mask(row) == \/ Contains(Text[row.Class], stripped)
                     \/ Contains(Text[row.Description], stripped)
                     \/ Contains(row.Entity, stripped)
    IN  IF stripped = << >>
        THEN [raised |-> FALSE, value |-> rows]
        ELSE IF PatternRaises(stripped)
             THEN [raised |-> TRUE, value |-> << >>]
             ELSE [raised |-> FALSE, value |-> SelectSeq(rows, mask)]

(***************************************************************************)
(* ner_service.py: _chunk_text                                             *)
(***************************************************************************)
\* text.replace("\n", " \n ")
RECURSIVE SpreadNewlines(_)
SpreadNewlines(text) ==
    IF text = << >> THEN << >>
    ELSE IF text[1] = "\n"
         THEN << " ", "\n", " " >> \o SpreadNewlines(Tail(text))
         ELSE << text[1] >> \o SpreadNewlines(Tail(text))

\* s.split(". "): the pieces between the non-overlapping occurrences of ". ",
\* found from the left; cur is the piece being read, acc the pieces read
RECURSIVE SplitSentences(_, _, _, _)
SplitSentences(s, i, cur, acc) ==
    IF i > Len(s) THEN Append(acc, cur)
    ELSE IF i < Len(s) /\ s[i] = "." /\ s[i + 1] = " "
         THEN SplitSentences(s, i + 2, << >>, Append(acc, cur))
         ELSE SplitSentences(s, i + 1, Append(cur, s[i]), acc)

\* lines 69-76: the loop over the sentences from index i on, then lines 77-78
RECURSIVE ChunkLoop(_, _, _, _, _)
ChunkLoop(sentences, i, max_chars, chunks, current) ==
    IF i > Len(sentences)
    THEN IF Strip(current) # << >>
         THEN Append(chunks, Strip(current))
         ELSE chunks
    ELSE LET sentence  == sentences[i]
             candidate == current \o sentence \o << ".", " " >>
         IN  IF Len(candidate) <= max_chars
             THEN ChunkLoop(sentences, i + 1, max_chars, chunks, candidate)
             ELSE ChunkLoop(sentences, i + 1, max_chars,
                      IF Strip(current) # << >>
                      THEN Append(chunks, Strip(current))
                      ELSE chunks,
                      sentence \o << ".", " " >>)

\* a chunker that cuts the text at max_chars and returns that one chunk
_chunk_text_Truncating(text, max_chars) ==
    IF Len(text) <= max_chars
    THEN << text >>
    ELSE << SubSeq(text, 1, max_chars) >>

_chunk_text(text, max_chars) ==
    IF Len(text) <= max_chars
    THEN << text >>
    ELSE LET chunks ==
                 ChunkLoop(SplitSentences(SpreadNewlines(text), 1, << >>, << >>),
                           1, max_chars, << >>, << >>)
         IN  IF chunks # << >>
             THEN chunks
             ELSE << SubSeq(text, 1, max_chars) >>

(***************************************************************************)
(* State                                                                   *)
(***************************************************************************)
VARIABLES
    cw_word,      \* _clean_word: the argument word
    cw_class,     \* _clean_word: the argument entity_class
    cw_out,       \* _clean_word: the returned string
    cw_again,     \* _clean_word of cw_out
    cw_steps,     \* _clean_word: the local word after steps 1, 2, 3 and 4
    cw_pc,        \* "call", "done" (one call made), "redone" (two)
    ck_text,      \* _chunk_text: the argument text
    ck_max,       \* _chunk_text: the argument max_chars
    ck_chunks,    \* _chunk_text: the returned list
    ck_pc,        \* "call", "done"
    total,        \* extract: len(chunks)
    i,            \* extract: the index of the chunk the loop is at (from 1)
    results,      \* extract: the list the loop extends
    outcomes,     \* what the oracle did for each chunk submitted so far
    progress,     \* the on_chunk(i, total) calls made so far
    raw_entities, \* aggregate / _merge_adjacent: the argument list
    merged,       \* the list _merge_adjacent returned (line 164)
    df,           \* aggregate: the rows of the returned DataFrame
    perm,         \* the order in which a second call gets the same records
    merged_perm,  \* _merge_adjacent's list in that second call
    df_perm,      \* the rows that second call returned
    pc,           \* where the caller of extract / aggregate is
    stats,        \* what summary_stats returned for df
    query,        \* filter_by_query: the argument query
    shown         \* filter_by_query: what the call returned

cleanVars == << cw_word, cw_class, cw_out, cw_again, cw_steps, cw_pc >>

chunkVars == << ck_text, ck_max, ck_chunks, ck_pc >>

extractVars == << total, i, results, outcomes, progress >>

aggVars == << raw_entities, merged, df, perm, merged_perm, df_perm, pc >>

viewVars == << stats, query, shown >>

vars == << cleanVars, chunkVars, extractVars, aggVars, viewVars >>

\* the components a specification does not exercise stay as they start
CleanIdle ==
    /\ cw_word = << >> /\ cw_class = "" /\ cw_out = << >>
    /\ cw_again = << >> /\ cw_steps = << >> /\ cw_pc = "idle"

ChunkIdle ==
    /\ ck_text = << >> /\ ck_max = 0 /\ ck_chunks = << >> /\ ck_pc = "idle"

ExtractIdle ==
    /\ total = 0 /\ i = 0 /\ results = << >>
    /\ outcomes = << >> /\ progress = << >>

AggFresh ==
    /\ merged = << >> /\ df = << >>
    /\ perm = << >> /\ merged_perm = << >> /\ df_perm = << >>

AggIdle == raw_entities = << >> /\ AggFresh /\ pc = "idle"

ViewIdle == stats = << >> /\ query = << >> /\ shown = << >>

(***************************************************************************)
(* _clean_word as a caller uses it: one call, then a call on its result    *)
(***************************************************************************)
\* the longest word of CleanWords, in fragments
MaxFrags == 3

\* the pieces the argument words are built from: letters of both cases, a
\* digit, the separators and the suffixes the cleaning steps look for
CleanFrags ==
    { << "A" >>, << "b" >>, << "1" >>, << " " >>, << "-" >>, << "#" >>,
      << "'", "s" >>, << "E", "x", "p" >>, << "B", "-", "I", "p" >> }

RECURSIVE FragWords(_)
FragWords(n) ==
    IF n = 0 THEN { << >> }
    ELSE LET shorter == FragWords(n - 1)
         IN  shorter \cup { w \o f : w \in shorter, f \in CleanFrags }

CleanWords == FragWords(MaxFrags)

\* one structural class, one compound-name class, one class of neither set
CleanClasses == { "IP", "MAL", "ACT" }

CleanInit ==
    /\ cw_word \in CleanWords
    /\ cw_class \in CleanClasses
    /\ cw_out = << >>
    /\ cw_again = << >>
    /\ cw_steps = << >>
    /\ cw_pc = "call"
    /\ ChunkIdle /\ ExtractIdle /\ AggIdle /\ ViewIdle

CleanCall ==
    /\ cw_pc = "call"
    /\ cw_out' = _clean_word(cw_word, cw_class)
    /\ cw_steps' = CleanSteps(cw_word, cw_class)
    /\ cw_pc' = "done"
    /\ UNCHANGED << cw_word, cw_class, cw_again,
                    chunkVars, extractVars, aggVars, viewVars >>

CleanAgain ==
    /\ cw_pc = "done"
    /\ cw_again' = _clean_word(cw_out, cw_class)
    /\ cw_pc' = "redone"
    /\ UNCHANGED << cw_word, cw_class, cw_out, cw_steps,
                    chunkVars, extractVars, aggVars, viewVars >>

CleanNext == CleanCall \/ CleanAgain

SpecClean == CleanInit /\ [][CleanNext]_vars

\* C5: _clean_word is idempotent: cleaning its own result, for the same
\* class, returns that result unchanged.
C5_CleanIdempotent == cw_pc = "redone" => cw_again = cw_out

(***************************************************************************)
(* _chunk_text as a caller uses it                                         *)
(***************************************************************************)
\* the longest text, in characters
MaxTextLen == 5

\* the largest max_chars
MaxBudget == 4

\* a letter, the two characters of the sentence separator, a newline
ChunkChars == { "a", ".", " ", "\n" }

ChunkTexts == UNION { [1..n -> ChunkChars] : n \in 0..MaxTextLen }

ChunkInit ==
    /\ ck_text \in ChunkTexts
    /\ ck_max \in 1..MaxBudget
    /\ ck_chunks = << >>
    /\ ck_pc = "call"
    /\ CleanIdle /\ ExtractIdle /\ AggIdle /\ ViewIdle

ChunkCall ==
    /\ ck_pc = "call"
    /\ ck_chunks' = _chunk_text(ck_text, ck_max)
    /\ ck_pc' = "done"
    /\ UNCHANGED << ck_text, ck_max,
                    cleanVars, extractVars, aggVars, viewVars >>

ChunkNext == ChunkCall

SpecChunk == ChunkInit /\ [][ChunkNext]_vars

\* C7: every chunk _chunk_text returns is at most max_chars long.
C7_ChunksWithinBudget ==
    ck_pc = "done" =>
        \A k \in 1..Len(ck_chunks) : Len(ck_chunks[k]) <= ck_max

\* a occurs in b as a run of consecutive characters
IsInfix(a, b) ==
    \E k \in 0..(Len(b) - Len(a)) : SubSeq(b, k + 1, k + Len(a)) = a

\* C13 as claimed: every piece between ". " separators of the input is, in
\* document order, in one chunk (read without regard to whitespace).
C13_InputSentencesCovered ==
    ck_pc = "done" =>
        LET S == SplitSentences(ck_text, 1, << >>, << >>)
        IN  \E g \in [1..Len(S) -> 1..Len(ck_chunks)] :
                /\ \A a, b \in 1..Len(S) : a < b => g[a] <= g[b]
                /\ \A k \in 1..Len(S) :
                      IsInfix(RemoveSpace(S[k]), RemoveSpace(ck_chunks[g[k]]))

\* the sentences S[a..b], each followed by ". "
RECURSIVE GroupText(_, _, _)
GroupText(S, a, b) ==
    IF a > b THEN << >>
    ELSE S[a] \o << ".", " " >> \o GroupText(S, a + 1, b)

\* the j-th smallest element of a set of numbers
NthOf(set, j) ==
    CHOOSE c \in set : Cardinality({ d \in set : d < c }) = j - 1

\* the chunks that cutting S after the sentences in cuts gives
ChunksOfCuts(S, cuts) ==
    LET n     == Cardinality(cuts) + 1
        lo(j) == IF j = 1 THEN 1 ELSE NthOf(cuts, j - 1) + 1
        hi(j) == IF j = n THEN Len(S) ELSE NthOf(cuts, j)
    IN  [j \in 1..n |-> Strip(GroupText(S, lo(j), hi(j)))]

\* C13 as amended: a text within the budget is the one chunk; a longer text
\* is covered as split into sentences after every newline was replaced by
\* " \n ": the sentence list is cut into consecutive non-empty groups, one
\* per chunk and in order, and a chunk is its group's sentences, each
\* followed by ". ", without the whitespace at its two ends.
C13_GroupsCovered ==
    ck_pc = "done" =>
        IF Len(ck_text) <= ck_max
        THEN ck_chunks = << ck_text >>
        ELSE LET S == SplitSentences(SpreadNewlines(ck_text), 1, << >>, << >>)
             IN  \E cuts \in SUBSET (1..(Len(S) - 1)) :
                     ck_chunks = ChunksOfCuts(S, cuts)

\* a text over the budget, of three sentences, in two chunks
C13_Witness ==
    /\ ck_pc = "done"
    /\ Len(ck_text) > ck_max
    /\ Len(SplitSentences(SpreadNewlines(ck_text), 1, << >>, << >>)) = 3
    /\ Len(ck_chunks) = 2

(***************************************************************************)
(* _merge_adjacent on the oracle's record shape                            *)
(***************************************************************************)
\* the longest argument list of a direct _merge_adjacent call
MaxMergeLen == 3

\* two classes; the spans [0,2) [5,7) [11,13), which lie 3, 4 and 9 apart;
\* two words, each with its score (in hundredths)
MergePreds ==
    { [entity_group |-> g, word |-> ws[1], start |-> s,
       end |-> s + Len(ws[1]), score |-> ws[2]] :
        g \in { "MAL", "IP" },
        ws \in { << << "G", "a" >>, 90 >>, << << "g", "a" >>, 40 >> },
        s \in { 0, 5, 11 } }

MergeInputs == UNION { [1..n -> MergePreds] : n \in 0..MaxMergeLen }

MergeInit ==
    /\ raw_entities \in MergeInputs
    /\ AggFresh
    /\ pc = "merge"
    /\ CleanIdle /\ ChunkIdle /\ ExtractIdle /\ ViewIdle

MergeCall ==
    /\ pc = "merge"
    /\ LET m == _merge_adjacent(raw_entities)
       IN  /\ merged' = m.value
           /\ pc' = IF m.raised THEN "raised" ELSE "merged"
    /\ raw_entities' = InputAfterMerge(raw_entities)
    /\ UNCHANGED << df, perm, merged_perm, df_perm,
                    cleanVars, chunkVars, extractVars, viewVars >>

MergeNext == MergeCall

SpecMerge == MergeInit /\ [][MergeNext]_vars

\* The runs of a prediction list, stated from the list alone: a run ends
\* before index k when prediction k differs in class from prediction k - 1
\* or starts more than 3 after prediction k - 1 ends.
RunBreaks(raw) ==
    { k \in 2..Len(raw) :
        ~ ( /\ raw[k].entity_group = raw[k - 1].entity_group
            /\ raw[k].start - raw[k - 1].end <= 3 ) }

RunStarts(raw) == IF raw = << >> THEN {} ELSE { 1 } \cup RunBreaks(raw)

\* the first and the last index of the n-th run
RunFirst(raw, n) ==
    CHOOSE k \in RunStarts(raw) :
        Cardinality({ j \in RunStarts(raw) : j <= k }) = n

RunLast(raw, n) ==
    IF n = Cardinality(RunStarts(raw)) THEN Len(raw)
    ELSE RunFirst(raw, n + 1) - 1

RunWords(raw, n) ==
    [j \in 1..(RunLast(raw, n) - RunFirst(raw, n) + 1) |->
        raw[RunFirst(raw, n) + j - 1].word]

\* C1: _merge_adjacent returns one mention per run, in input order: a
\* prediction is folded into the current mention exactly when it has the
\* mention's class and starts at most 3 after the mention ends; every input
\* prediction is in exactly one mention, the last run is emitted, and the
\* empty list gives the empty list.
C1_MergeRuns ==
    pc = "merged" =>
        /\ Len(merged) = Cardinality(RunStarts(raw_entities))
        /\ \A n \in 1..Len(merged) :
              /\ merged[n].entity_group
                     = raw_entities[RunFirst(raw_entities, n)].entity_group
              /\ Split(merged[n].word) = RunWords(raw_entities, n)

\* a run folded at a distance of exactly 3 and a run cut at a distance of 4
C1_Witness ==
    /\ pc = "merged"
    /\ Len(raw_entities) = 3
    /\ Len(merged) = 2
    /\ raw_entities[1].entity_group = raw_entities[3].entity_group
    /\ raw_entities[2].start - raw_entities[1].end = 3
    /\ raw_entities[3].start - raw_entities[2].end = 4

RECURSIVE MinScore(_, _, _)
MinScore(raw, a, b) ==
    IF a = b THEN raw[a].score
    ELSE Min2(raw[a].score, MinScore(raw, a + 1, b))

\* C9: a mention's word is its constituents' words joined by single spaces
\* in input order, its start the first constituent's start, its end the last
\* constituent's end, its score the smallest constituent score.
C9_MentionFields ==
    pc = "merged" =>
        \A n \in 1..Len(merged) :
            LET a == RunFirst(raw_entities, n)
                b == RunLast(raw_entities, n)
            IN  /\ merged[n].word = Join(RunWords(raw_entities, n), << " " >>)
                /\ merged[n].start = raw_entities[a].start
                /\ merged[n].end = raw_entities[b].end
                /\ merged[n].score = MinScore(raw_entities, a, b)

\* a mention of three constituents whose smallest score is the middle one's
C9_Witness ==
    /\ pc = "merged"
    /\ Len(raw_entities) = 3
    /\ Len(merged) = 1
    /\ raw_entities[2].score < raw_entities[1].score
    /\ raw_entities[2].score < raw_entities[3].score
    /\ raw_entities[1].word # raw_entities[2].word

(***************************************************************************)
(* The pipeline of app.py: extract over the chunks, then aggregate         *)
(***************************************************************************)
\* the most chunks _chunk_text hands to extract
MaxChunks == 2

\* the most predictions the oracle returns for one chunk
MaxChunkPreds == 2

\* what the oracle can predict in a chunk: two classes (each with its
\* word) at the chunk-relative spans [0,2) [3,5) [8,10)
OraclePreds ==
    { [entity_group |-> gw[1], word |-> gw[2], start |-> s,
       end |-> s + Len(gw[2]), score |-> 90] :
        gw \in { << "MAL", << "G", "a" >> >>, << "IP", << "1", "0" >> >> },
        s \in { 0, 3, 8 } }

\* the oracle's answers for one chunk: its predictions in text order
OracleOutputs ==
    { out \in UNION { [1..n -> OraclePreds] : n \in 0..MaxChunkPreds } :
        \A k \in 2..Len(out) : out[k - 1].end <= out[k].start }

\* app.py line 78: extract is entered; _chunk_text (line 116) has returned
\* total >= 1 chunks, which the oracle alone reads
Init ==
    /\ total \in 1..MaxChunks
    /\ i = 1
    /\ results = << >>
    /\ outcomes = << >>
    /\ progress = << >>
    /\ raw_entities = << >>
    /\ AggFresh
    /\ pc = "extract"
    /\ CleanIdle /\ ChunkIdle /\ ViewIdle

\* ner_service.py lines 119-125 (148-162): one turn of the loop in which
\* the oracle call returns
OracleOk ==
    /\ pc = "extract"
    /\ i <= total
    /\ \E preds \in OracleOutputs :
          /\ results' = results \o preds
          /\ outcomes' = Append(outcomes, [ok |-> TRUE, preds |-> preds])
    /\ progress' = Append(progress, << i, total >>)
    /\ i' = i + 1
    /\ UNCHANGED << total, aggVars, cleanVars, chunkVars, viewVars >>

\* the except clause leaving the loop instead of going on
OracleFail_Abort ==
    /\ pc = "extract"
    /\ i <= total
    /\ results' = results
    /\ outcomes' = Append(outcomes, [ok |-> FALSE, preds |-> << >>])
    /\ progress' = Append(progress, << i, total >>)
    /\ i' = total + 1
    /\ UNCHANGED << total, aggVars, cleanVars, chunkVars, viewVars >>

\* one turn of the loop in which the oracle call raises: except, then on_chunk
OracleFail ==
    /\ pc = "extract"
    /\ i <= total
    /\ results' = results
    /\ outcomes' = Append(outcomes, [ok |-> FALSE, preds |-> << >>])
    /\ progress' = Append(progress, << i, total >>)
    /\ i' = i + 1
    /\ UNCHANGED << total, aggVars, cleanVars, chunkVars, viewVars >>

\* ner_service.py line 126 and app.py lines 78-84: extract returns; the app
\* stops when the list is empty
ExtractReturn ==
    /\ pc = "extract"
    /\ i > total
    /\ raw_entities' = results
    /\ pc' = IF results = << >> THEN "stopped" ELSE "aggregate"
    /\ UNCHANGED << merged, df, perm, merged_perm, df_perm,
                    extractVars, cleanVars, chunkVars, viewVars >>

\* app.py line 86: entity_processor.aggregate(raw_entities)
Aggregate ==
    /\ pc = "aggregate"
    /\ LET m == _merge_adjacent(raw_entities)
           a == aggregate(raw_entities)
       IN  /\ merged' = m.value
           /\ df' = a.value
           /\ pc' = IF a.raised THEN "raised" ELSE "done"
    /\ raw_entities' = InputAfterMerge(raw_entities)
    /\ UNCHANGED << perm, merged_perm, df_perm,
                    extractVars, cleanVars, chunkVars, viewVars >>

Next == OracleOk \/ OracleFail \/ ExtractReturn \/ Aggregate

Spec == Init /\ [][Next]_vars

\* the mentions of merging each successful chunk's predictions on their own
RECURSIVE MergedPerChunk(_)
MergedPerChunk(outs) ==
    IF outs = << >> THEN << >>
    ELSE MergedPerChunk(SubSeq(outs, 1, Len(outs) - 1))
         \o (IF outs[Len(outs)].ok
             THEN _merge_adjacent(outs[Len(outs)].preds).value
             ELSE << >>)

\* C2: predictions of different chunks are never folded into one mention:
\* the mentions aggregate works on are those of merging every chunk's
\* predictions separately.
C2_NoMergeAcrossChunks == pc = "done" => merged = MergedPerChunk(outcomes)

\* the predictions of the chunks whose oracle call succeeded, in chunk order
RECURSIVE ConcatOk(_)
ConcatOk(outs) ==
    IF outs = << >> THEN << >>
    ELSE ConcatOk(SubSeq(outs, 1, Len(outs) - 1))
         \o (IF outs[Len(outs)].ok THEN outs[Len(outs)].preds ELSE << >>)

\* C8: a failed oracle call does not end extract: the failed chunk adds no
\* prediction, every chunk is submitted, and the list returned is the
\* concatenation, in chunk order, of the successful chunks' predictions.
C8_PartialResults ==
    /\ Len(outcomes) = i - 1
    /\ results = ConcatOk(outcomes)
    /\ pc # "extract" =>
          /\ Len(outcomes) = total
          /\ raw_entities = ConcatOk(outcomes)

\* extract has returned; the first chunk's call failed and a later chunk's
\* predictions are in the result
C8_Witness ==
    /\ pc = "aggregate"
    /\ total = 2
    /\ ~outcomes[1].ok
    /\ outcomes[2].ok
    /\ outcomes[2].preds # << >>
    /\ raw_entities = outcomes[2].preds

(***************************************************************************)
(* aggregate called on a prediction list, and again on the list reordered  *)
(***************************************************************************)
\* the longest argument list of a direct aggregate call
MaxAggLen == 4

\* class and word of a prediction: two casings of one name in one class,
\* the same word in a second class and in a class ENTITY_META does not
\* hold, a word too short to be valid
AggNames ==
    { << "MAL", << "G", "a" >> >>, << "MAL", << "g", "a" >> >>,
      << "IP", << "g", "a" >> >>, << "XYZ", << "g", "a" >> >>,
      << "MAL", << "a" >> >> }

\* a prediction to come: its name, and whether it starts 1 (near) or 4
\* characters after the end of the prediction before it; the two casings
\* come both ways, the other names 4 after
AggItems ==
    { it \in { [name |-> nm, near |-> b] : nm \in AggNames, b \in BOOLEAN } :
        it.near => it.name[1] = "MAL" /\ Len(it.name[2]) = 2 }

\* the prediction list of a sequence of items; the first starts at 0
RECURSIVE BuildRaw(_)
BuildRaw(items) ==
    IF items = << >> THEN << >>
    ELSE LET before == BuildRaw(SubSeq(items, 1, Len(items) - 1))
             it     == items[Len(items)]
             s      == IF before = << >> THEN 0
                       ELSE before[Len(before)].end
                            + (IF it.near THEN 1 ELSE 4)
         IN  Append(before,
                    [entity_group |-> it.name[1], word |-> it.name[2],
                     start |-> s, end |-> s + Len(it.name[2]), score |-> 90])

AggInputs ==
    { BuildRaw(items) : items \in UNION { [1..n -> AggItems] : n \in 0..MaxAggLen } }

AggInit ==
    /\ raw_entities \in AggInputs
    /\ AggFresh
    /\ pc = "aggregate"
    /\ CleanIdle /\ ChunkIdle /\ ExtractIdle /\ ViewIdle

AggNext == Aggregate

SpecAgg == AggInit /\ [][AggNext]_vars

\* The mentions as pass 1 sees them: class and cleaned text
Cleaned(ms) ==
    [k \in 1..Len(ms) |->
        [cls  |-> Get(ms[k], "entity_group", ""),
         text |-> _clean_word(Get(ms[k], "word", << >>),
                              Get(ms[k], "entity_group", ""))]]

\* the mentions that count, stated from that list alone
ValidIdx(cm) ==
    { k \in 1..Len(cm) : cm[k].cls # "" /\ _is_valid(cm[k].text) }

\* the (class, lowercased cleaned text) key of mention k
KeyOf(cm, k) == << cm[k].cls, Lower(cm[k].text) >>

Keys(cm) == { KeyOf(cm, k) : k \in ValidIdx(cm) }

\* the valid mentions that fold to key
Folding(cm, key) == { k \in ValidIdx(cm) : KeyOf(cm, k) = key }

\* the valid mentions of class cls whose cleaned text is exactly w
Occurrences(cm, cls, w) ==
    { k \in ValidIdx(cm) : cm[k].cls = cls /\ cm[k].text = w }

MinOf(S) == CHOOSE x \in S : \A y \in S : x <= y

\* the casing of a key with the highest count, the first seen among equals
BestCasing(cm, key) ==
    LET casings == { cm[k].text : k \in Folding(cm, key) }
        n(w)    == Cardinality(Occurrences(cm, key[1], w))
        seen(w) == MinOf(Occurrences(cm, key[1], w))
    IN  CHOOSE w \in casings :
            \A v \in casings \ { w } :
                n(w) > n(v) \/ (n(w) = n(v) /\ seen(w) < seen(v))

RowKey(row) == << row.Class, Lower(row.Entity) >>

\* C3: aggregate returns exactly one row per (class, lowercased cleaned
\* text) key that has a valid mention; the row's Count is the number of valid
\* mentions folding to the key (the sum of the casings' pass-1 counts) and
\* its Entity the casing with the highest pass-1 count, the first seen
\* casing winning a tie.
C3_OneRowPerKey ==
    pc = "done" =>
        LET cm == Cleaned(merged)
        IN  /\ { RowKey(df[r]) : r \in 1..Len(df) } = Keys(cm)
            /\ Len(df) = Cardinality(Keys(cm))
            /\ \A r \in 1..Len(df) :
                  /\ df[r].Count = Cardinality(Folding(cm, RowKey(df[r])))
                  /\ df[r].Entity = BestCasing(cm, RowKey(df[r]))

\* "Ga" three times and "ga" once in class MAL: one row, "Ga", count 4;
\* the lone "ga" is seen first
C3_Witness ==
    /\ pc = "done"
    /\ Len(merged) = 4
    /\ Len(df) = 1
    /\ df[1].Class = "MAL"
    /\ df[1].Entity = << "G", "a" >>
    /\ df[1].Count = 4
    /\ merged[1].word = << "g", "a" >>

\* C10: the rows are in non-increasing Count order, and rows of equal Count
\* are in the order in which their keys were first seen in the input.
C10_RowOrder ==
    pc = "done" =>
        LET cm == Cleaned(merged)
        IN  \A a, b \in 1..Len(df) :
                a < b =>
                    /\ df[a].Count >= df[b].Count
                    /\ df[a].Count = df[b].Count =>
                          MinOf(Folding(cm, RowKey(df[a])))
                              < MinOf(Folding(cm, RowKey(df[b])))

\* three rows: the key seen last has the highest count and comes first, the
\* two others tie and keep their input order
C10_Witness ==
    /\ pc = "done"
    /\ Len(df) = 3
    /\ df[1].Count > df[2].Count
    /\ df[2].Count = df[3].Count
    /\ LET cm == Cleaned(merged)
       IN  /\ RowKey(df[1]) = KeyOf(cm, Len(cm))
           /\ RowKey(df[2]) = KeyOf(cm, 1)
           /\ RowKey(df[3]) = KeyOf(cm, 2)

\* C22: aggregate, and the _merge_adjacent call in it, leave their argument
\* as it was: the list has the same length and order and every record the
\* same word, start, end, score and class, the records that were folded into
\* a merged mention included.
C22_InputUnchanged == [][raw_entities' = raw_entities]_vars

\* the call has returned, two predictions were folded into one mention, and
\* the first prediction still has its own word
C22_Witness ==
    /\ pc = "done"
    /\ Len(raw_entities) = 2
    /\ Len(merged) = 1
    /\ raw_entities[1].word = << "G", "a" >>
    /\ merged[1].word = << "G", "a", " ", "g", "a" >>

(***************************************************************************)
(* aggregate called a second time on the same predictions, reordered       *)
(***************************************************************************)
\* the longest list that is aggregated in two orders
MaxPermLen == 4

\* the predictions of those lists lie 4 characters apart in the first order
PermItems ==
    { [name |-> nm, near |-> FALSE] :
        nm \in { << "MAL", << "G", "a" >> >>, << "MAL", << "g", "a" >> >>,
                 << "IP", << "g", "a" >> >> } }

PermInputs ==
    { BuildRaw(items) :
        items \in UNION { [1..n -> PermItems] : n \in 0..MaxPermLen } }

\* the permutations of 1..n
Perms(n) ==
    { f \in [1..n -> 1..n] : \A a, b \in 1..n : f[a] = f[b] => a = b }

PermInit ==
    /\ raw_entities \in PermInputs
    /\ AggFresh
    /\ pc = "aggregate"
    /\ CleanIdle /\ ChunkIdle /\ ExtractIdle /\ ViewIdle

\* aggregate([raw_entities[p[1]], raw_entities[p[2]], ...])
AggregatePermuted ==
    /\ pc = "done"
    /\ \E p \in Perms(Len(raw_entities)) :
          LET again == [k \in 1..Len(raw_entities) |-> raw_entities[p[k]]]
              m     == _merge_adjacent(again)
              a     == aggregate(again)
          IN  /\ perm' = p
              /\ merged_perm' = m.value
              /\ df_perm' = a.value
              /\ pc' = IF a.raised THEN "raised" ELSE "permuted"
    /\ UNCHANGED << raw_entities, merged, df,
                    extractVars, cleanVars, chunkVars, viewVars >>

PermNext == Aggregate \/ AggregatePermuted

SpecPerm == PermInit /\ [][PermNext]_vars

\* the multiset of the elements of a sequence
BagOf(seq) ==
    [x \in { seq[k] : k \in 1..Len(seq) } |->
        Cardinality({ k \in 1..Len(seq) : seq[k] = x })]

\* the (class, canonical text, count) records of a table
Records(rows) ==
    [r \in 1..Len(rows) |-> << rows[r].Class, rows[r].Entity, rows[r].Count >>]

\* the same with the canonical text lowercased
FoldedRecords(rows) ==
    [r \in 1..Len(rows) |->
        << rows[r].Class, Lower(rows[r].Entity), rows[r].Count >>]

\* C4 as claimed: aggregating a permutation of a list yields the same
\* multiset of (class, canonical text, count) records.
C4_SameRecords ==
    pc = "permuted" => BagOf(Records(df_perm)) = BagOf(Records(df))

\* C4 as amended: when the two calls work on the same mentions (the merged
\* lists are permutations of each other), they yield the same multiset of
\* (class, lowercased canonical text, count) records.
C4_SameFoldedRecords ==
    (pc = "permuted" /\ BagOf(merged_perm) = BagOf(merged)) =>
        BagOf(FoldedRecords(df_perm)) = BagOf(FoldedRecords(df))

\* the same mentions in another order, and a canonical casing that differs
C4_Witness ==
    /\ pc = "permuted"
    /\ BagOf(merged_perm) = BagOf(merged)
    /\ merged_perm # merged
    /\ Len(df) = 2
    /\ BagOf(Records(df_perm)) # BagOf(Records(df))

(***************************************************************************)
(* aggregate on records that lack fields                                   *)
(***************************************************************************)
\* the longest list of such records
MaxMissingLen == 3

\* the key sets a record can come with: every field, no offsets, no end,
\* no start, no class, no word, no score, nothing
MissingShapes ==
    { { "entity_group", "word", "start", "end", "score" },
      { "entity_group", "word", "score" },
      { "entity_group", "word", "start", "score" },
      { "entity_group", "word", "end", "score" },
      { "word", "start", "end", "score" },
      { "entity_group", "start", "end", "score" },
      { "entity_group", "word", "start", "end" },
      {} }

MissingPreds ==
    { [k \in shape |-> full[k]] :
        shape \in MissingShapes,
        full \in { [entity_group |-> "MAL", word |-> << "G", "a" >>,
                    start |-> 0, end |-> 2, score |-> 90],
                   [entity_group |-> "MAL", word |-> << "g", "a" >>,
                    start |-> 6, end |-> 8, score |-> 40] } }

MissingInputs == UNION { [1..n -> MissingPreds] : n \in 0..MaxMissingLen }

MissingInit ==
    /\ raw_entities \in MissingInputs
    /\ AggFresh
    /\ pc = "aggregate"
    /\ CleanIdle /\ ChunkIdle /\ ExtractIdle /\ ViewIdle

SpecMissing == MissingInit /\ [][AggNext]_vars

\* C6: aggregate never raises on records with missing fields.
C6_NeverRaises == pc # "raised"

(***************************************************************************)
(* aggregate, then summary_stats, on mentions that are to be dropped       *)
(***************************************************************************)
\* the longest argument list of these calls
MaxRowsLen == 3

\* a valid name in two casings, a name of one character, two names without
\* a letter or digit (the first is stripped to nothing by the cleaning, the
\* second is kept by it), a name without a class, a name in a class
\* ENTITY_META does not hold
RowsNames ==
    { << "MAL", << "G", "a" >> >>, << "MAL", << "g", "a" >> >>,
      << "MAL", << "a" >> >>, << "MAL", << "-", "-" >> >>,
      << "MAL", << "_", "_" >> >>, << "", << "G", "a" >> >>,
      << "XYZ", << "G", "a" >> >> }

\* every name 4 characters after the prediction before it, the first name
\* also 1 character after it
RowsItems ==
    { it \in { [name |-> nm, near |-> b] : nm \in RowsNames, b \in BOOLEAN } :
        it.near => it.name = << "MAL", << "G", "a" >> >> }

RowsInputs ==
    { BuildRaw(items) :
        items \in UNION { [1..n -> RowsItems] : n \in 0..MaxRowsLen } }

RowsInit ==
    /\ raw_entities \in RowsInputs
    /\ AggFresh
    /\ pc = "aggregate"
    /\ CleanIdle /\ ChunkIdle /\ ExtractIdle /\ ViewIdle

\* app.py line 87: entity_processor.summary_stats(st.session_state["df"])
Summarise ==
    /\ pc = "done"
    /\ stats' = summary_stats(df)
    /\ pc' = "summarised"
    /\ UNCHANGED << raw_entities, merged, df, perm, merged_perm, df_perm,
                    query, shown, extractVars, cleanVars, chunkVars >>

RowsNext == Aggregate \/ Summarise

SpecRows == RowsInit /\ [][RowsNext]_vars

\* a text of at least 2 characters with a letter or a digit in it
LongEnoughWithAlnum(text) ==
    /\ Len(text) >= 2
    /\ \E c \in 1..Len(text) :
           text[c] \in UpperChars \cup LowerChars \cup DigitChars

\* the mentions whose cleaned text is such a text
Kept(ms) ==
    LET cm == Cleaned(ms)
    IN  { k \in 1..Len(ms) : LongEnoughWithAlnum(cm[k].text) }

\* the list without the other mentions
RECURSIVE OnlyKept(_, _)
OnlyKept(ms, keep) ==
    IF ms = << >> THEN << >>
    ELSE OnlyKept(SubSeq(ms, 1, Len(ms) - 1), keep)
         \o (IF Len(ms) \in keep THEN << ms[Len(ms)] >> ELSE << >>)

\* C11: no row has an Entity shorter than 2 characters or without a letter
\* or digit; a mention whose cleaned text is such a text is dropped and adds
\* to no count: the table is the table of the list without those mentions.
C11_InvalidDropped ==
    pc \in { "done", "summarised" } =>
        /\ \A r \in 1..Len(df) : LongEnoughWithAlnum(df[r].Entity)
        /\ df = Tabulate(OnlyKept(merged, Kept(merged)))

\* a mention cleaned to one character, one cleaned to "__" and a valid one:
\* one row of count 1
C11_Witness ==
    /\ pc = "done"
    /\ Len(merged) = 3
    /\ \E a, b \in 1..3 :
          /\ Cleaned(merged)[a].text = << "a" >>
          /\ Cleaned(merged)[b].text = << "_", "_" >>
    /\ Len(df) = 1
    /\ df[1].Count = 1

\* the sum of the Count column, by rows
RECURSIVE SumOfCounts(_, _)
SumOfCounts(rows, n) ==
    IF n = 0 THEN 0 ELSE rows[n].Count + SumOfCounts(rows, n - 1)

\* C12: total_mentions is the sum of the rows' counts and the number of
\* merged mentions with a class and a valid cleaned text; each of those is
\* counted in exactly one row, and every row has Count >= 1.
C12_TotalMentions ==
    pc = "summarised" =>
        LET cm == Cleaned(merged)
        IN  /\ stats.total_mentions = SumOfCounts(df, Len(df))
            /\ stats.total_mentions = Cardinality(ValidIdx(cm))
            /\ \A k \in ValidIdx(cm) :
                  Cardinality({ r \in 1..Len(df) : RowKey(df[r]) = KeyOf(cm, k) })
                      = 1
            /\ \A r \in 1..Len(df) : df[r].Count >= 1

\* three mentions: two fold into one row, the third is dropped
C12_Witness ==
    /\ pc = "summarised"
    /\ Len(merged) = 3
    /\ Len(df) = 1
    /\ df[1].Count = 2
    /\ stats.total_mentions = 2

\* C18: every row's Description is the label ENTITY_META holds for the row's
\* class, and the class code itself for a class ENTITY_META does not hold;
\* such a class does not make aggregate raise and its valid mentions have
\* their row.
C18_Description ==
    /\ pc # "raised"
    /\ pc \in { "done", "summarised" } =>
          LET cm == Cleaned(merged)
          IN  /\ \A r \in 1..Len(df) :
                    df[r].Description =
                        IF df[r].Class \in DOMAIN ENTITY_META
                        THEN ENTITY_META[df[r].Class]
                        ELSE df[r].Class
              /\ \A k \in ValidIdx(cm) :
                    \E r \in 1..Len(df) : RowKey(df[r]) = KeyOf(cm, k)

\* a row of the unknown class XYZ described by its code, next to a row of a
\* known class described by its label
C18_Witness ==
    /\ pc = "done"
    /\ \E a, b \in 1..Len(df) :
          /\ df[a].Class = "XYZ" /\ df[a].Description = "XYZ"
          /\ df[b].Class = "MAL" /\ df[b].Description = "Malware"

(***************************************************************************)
(* _clean_word on phrases: tokens joined by single spaces                   *)
(***************************************************************************)
\* the most tokens of a phrase built from PhraseTokens
MaxTokens == 3

\* a capitalised token, an upper-case one, a lower-case one, a token of one
\* character, a token that starts with the "##" marker
PhraseTokens ==
    { << "A", "b", "c" >>, << "A", "B", "C" >>, << "b", "c", "d" >>,
      << "2" >>, << "#", "#", "b", "c" >> }

RECURSIVE TokenPhrases(_)
TokenPhrases(n) ==
    IF n = 0 THEN { << >> }
    ELSE LET shorter == TokenPhrases(n - 1)
         IN  shorter
             \cup { IF w = << >> THEN t ELSE w \o << " " >> \o t :
                       w \in shorter, t \in PhraseTokens }

\* the texts the documentation of _clean_word and its comments name, and
\* texts of four tokens, of doubled halves and with tabs and newlines
PhraseExamples ==
    { << "G", "a", "n", "d", "C", "r", "a", "b", " ", "G", "a", "n", "d", "C", "r", "a", "b" >>,
      << "P", "o", "w", "e", "r", " ", "S", "p", "l", "o", "i", "t" >>,
      << "C", " ", "2" >>,
      << "C", "V", "E", " ", "2", "0", "2", "1", " ", "4", "4", "2", "2", "8" >>,
      << "G", "a", "n", "d", " ", "#", "#", "C", "r", "a", "b" >>,
      << "A", "P", "T", " ", "1", "0", " ", "A", "P", "T", " ", "1", "0" >>,
      << "F", "a", "n", "c", "y", " ", "B", "e", "a", "r", " ", "F", "a", "n", "c", "y", " ", "B", "e", "a", "r" >>,
      << "A", "b", " ", "A", "b", "A", "b", " ", "A", "b" >>,
      << "A", "\t", "b", "\n", "2" >> }

PhraseWords == TokenPhrases(MaxTokens) \cup PhraseExamples

\* the classes of lines 22 and 26, and one class of neither set
PhraseClasses ==
    { "VULID", "SHA1", "SHA2", "MD5", "FILE", "URL", "EMAIL", "IP", "DOM",
      "TOOL", "MAL", "APT", "ENCR", "ACT" }

PhraseInit ==
    /\ cw_word \in PhraseWords
    /\ cw_class \in PhraseClasses
    /\ cw_out = << >>
    /\ cw_again = << >>
    /\ cw_steps = << >>
    /\ cw_pc = "call"
    /\ ChunkIdle /\ ExtractIdle /\ AggIdle /\ ViewIdle

SpecPhrase == PhraseInit /\ [][CleanNext]_vars

\* the call has returned
Cleaned1 == cw_pc \in { "done", "redone" }

\* the text consists of two equal halves, character-wise after trimming
CharHalves(t) ==
    /\ Len(t) >= 2
    /\ Len(t) % 2 = 0
    /\ Strip(SubSeq(t, 1, Len(t) \div 2))
           = Strip(SubSeq(t, Len(t) \div 2 + 1, Len(t)))

\* the text is an even number of tokens whose first half equals the second
TokenHalves(t) ==
    LET parts == Split(t)
    IN  /\ Len(parts) >= 2
        /\ Len(parts) % 2 = 0
        /\ SubSeq(parts, 1, Len(parts) \div 2)
               = SubSeq(parts, Len(parts) \div 2 + 1, Len(parts))

FirstCharHalf(t) == Strip(SubSeq(t, 1, Len(t) \div 2))

FirstTokenHalf(t) ==
    Join(SubSeq(Split(t), 1, Len(Split(t)) \div 2), << " " >>)

\* C14 as claimed: a text reaching the self-duplication step that consists
\* of two equal halves, character-wise or token-wise, leaves it as its first
\* half; _clean_word("GandCrab GandCrab", "MAL") = "GandCrab".
C14_FirstHalfKept ==
    Cleaned1 =>
        LET t   == cw_steps[3]
            out == cw_steps[4]
        IN  /\ CharHalves(t) => out = FirstCharHalf(t)
            /\ TokenHalves(t) => out = FirstTokenHalf(t)
            /\ (cw_word = << "G", "a", "n", "d", "C", "r", "a", "b", " ", "G", "a", "n", "d", "C", "r", "a", "b" >>
                    /\ cw_class = "MAL")
                   => cw_out = << "G", "a", "n", "d", "C", "r", "a", "b" >>

\* C14 as amended: the character-wise rule needs a text of 4 characters or
\* more, and the half it keeps is halved once more when that half is itself
\* an even number of tokens with two equal halves; the token-wise rule keeps
\* the first half of the tokens; a text of two equal characters stays.
C14_FirstHalfKeptFromFour ==
    Cleaned1 =>
        LET t   == cw_steps[3]
            out == cw_steps[4]
            h   == FirstCharHalf(t)
        IN  /\ (CharHalves(t) /\ Len(t) >= 4) =>
                  out = IF TokenHalves(h) THEN FirstTokenHalf(h) ELSE h
            /\ (CharHalves(t) /\ Len(t) < 4) => out = t
            /\ (TokenHalves(t) /\ ~CharHalves(t)) => out = FirstTokenHalf(t)
            /\ (cw_word = << "G", "a", "n", "d", "C", "r", "a", "b", " ", "G", "a", "n", "d", "C", "r", "a", "b" >>
                    /\ cw_class = "MAL")
                   => cw_out = << "G", "a", "n", "d", "C", "r", "a", "b" >>

\* "2 2" outside the structural classes: joined to "22" by step 3 and left
\* as it is by the self-duplication step
C14_Witness ==
    /\ Cleaned1
    /\ cw_word = << "2", " ", "2" >>
    /\ cw_steps[3] = << "2", "2" >>
    /\ cw_steps[4] = << "2", "2" >>

\* the classes whose values are space-free by definition
StructuralClasses ==
    { "VULID", "SHA1", "SHA2", "MD5", "FILE", "URL", "EMAIL", "IP", "DOM" }

\* a text with a cased character and no lower-case one
FullyUpper(t) ==
    /\ \E k \in 1..Len(t) : t[k] \in UpperChars
    /\ \A k \in 1..Len(t) : t[k] \notin LowerChars

C16_NoSpaceInStructural ==
    (Cleaned1 /\ cw_class \in StructuralClasses) =>
        \A k \in 1..Len(cw_out) : cw_out[k] \notin { " ", "\t", "\n" }

\* "CVE 2021 44228" in class VULID becomes "CVE202144228"
C16_Witness ==
    /\ Cleaned1
    /\ cw_class = "VULID"
    /\ cw_word = << "C", "V", "E", " ", "2", "0", "2", "1", " ", "4", "4", "2", "2", "8" >>
    /\ cw_out = << "C", "V", "E", "2", "0", "2", "1", "4", "4", "2", "2", "8" >>

\* C19: the cleaned text holds no sub-word marker (U+0120, U+2581, "##"),
\* wherever the marker stood in the text.
C19_NoMarkers ==
    Cleaned1 =>
        /\ \A k \in 1..Len(cw_out) : cw_out[k] \notin { GDot, LowBar }
        /\ ~IsInfix(<< "#", "#" >>, cw_out)

\* C20: a phrase of two or more tokens repeated twice is cleaned, outside
\* the structural classes, to one copy of the phrase with its spaces kept.
C20_PhraseKept ==
    (Cleaned1 /\ cw_class \notin StructuralClasses
              /\ Len(Split(cw_word)) >= 4 /\ TokenHalves(cw_word)) =>
        cw_out = FirstTokenHalf(cw_word)

(***************************************************************************)
(* filter_by_query on a table and a query                                  *)
(***************************************************************************)
\* the most rows of a filtered table
MaxTableLen == 2

\* the longest query, in characters
MaxQueryLen == 3

\* rows as aggregate builds them: an entity of letters, one with a "." and
\* one with a "(" in it
TableRows ==
    { [Class |-> "MAL", Description |-> Description("MAL"),
       Entity |-> << "G", "a" >>, Count |-> 2],
      [Class |-> "IP", Description |-> Description("IP"),
       Entity |-> << "a", ".", "G" >>, Count |-> 1],
      [Class |-> "MAL", Description |-> Description("MAL"),
       Entity |-> << "a", "(", "a" >>, Count |-> 1] }

\* tables of distinct rows in non-increasing Count order (line 190)
Tables ==
    { t \in UNION { [1..n -> TableRows] : n \in 0..MaxTableLen } :
        \A a, b \in 1..Len(t) :
            a < b => t[a] # t[b] /\ t[a].Count >= t[b].Count }

QueryChars == { "a", "G", ".", "(", " " }

Queries == UNION { [1..n -> QueryChars] : n \in 0..MaxQueryLen }

FilterInit ==
    /\ df \in Tables
    /\ query \in Queries
    /\ raw_entities = << >> /\ merged = << >>
    /\ perm = << >> /\ merged_perm = << >> /\ df_perm = << >>
    /\ stats = << >> /\ shown = << >>
    /\ pc = "filter"
    /\ CleanIdle /\ ChunkIdle /\ ExtractIdle

\* app.py line 112: entity_processor.filter_by_query(df, search)
Filter ==
    /\ pc = "filter"
    /\ LET f == filter_by_query(df, query)
       IN  /\ shown' = f.value
           /\ pc' = IF f.raised THEN "raised" ELSE "shown"
    /\ UNCHANGED << raw_entities, merged, df, perm, merged_perm, df_perm,
                    stats, query, extractVars, cleanVars, chunkVars >>

FilterNext == Filter

SpecFilter == FilterInit /\ [][FilterNext]_vars

\* a occurs in b as a run of consecutive characters, letters compared
\* without regard to case
IsInfixNoCase(a, b) == IsInfix(Lower(a), Lower(b))

\* C17: filter_by_query returns, in their order, exactly the rows in which
\* the trimmed query is a case-insensitive literal substring of the Class,
\* the Description or the Entity, and the table itself for an empty or
\* whitespace-only query, whatever characters the query holds.
C17_LiteralFilter ==
    /\ pc # "raised"
    /\ pc = "shown" =>
          LET stripped == Strip(query)
              has(row) == \/ IsInfixNoCase(stripped, Text[row.Class])
                          \/ IsInfixNoCase(stripped, Text[row.Description])
                          \/ IsInfixNoCase(stripped, row.Entity)
          IN  shown = IF stripped = << >> THEN df ELSE SelectSeq(df, has)

(***************************************************************************)
(* _clean_word on texts with tag tokens and with hyphenated words          *)
(***************************************************************************)
\* the most tokens of a text built from TagTokens
MaxTagTokens == 2

\* two leaked tags, a plain word, and two hyphenated words that hold the
\* letters of a tag inside them
TagTokens ==
    { << "B", "-", "I", "p" >>,
      << "I", "-", "M", "a", "l" >>,
      << "a", "b" >>,
      << "w", "e", "b", "-", "i", "p", ".", "c", "o", "m" >>,
      << "a", "n", "t", "i", "-", "m", "a", "l", "w", "a", "r", "e" >> }

RECURSIVE TagPhrases(_)
TagPhrases(n) ==
    IF n = 0 THEN { << >> }
    ELSE LET shorter == TagPhrases(n - 1)
         IN  shorter
             \cup { IF w = << >> THEN t ELSE w \o << " " >> \o t :
                       w \in shorter, t \in TagTokens }

TagWords == TagPhrases(MaxTagTokens)

TagClasses == { "DOM", "TOOL", "ACT" }

TagInit ==
    /\ cw_word \in TagWords
    /\ cw_class \in TagClasses
    /\ cw_out = << >>
    /\ cw_again = << >>
    /\ cw_steps = << >>
    /\ cw_pc = "call"
    /\ ChunkIdle /\ ExtractIdle /\ AggIdle /\ ViewIdle

SpecTag == TagInit /\ [][CleanNext]_vars

\* the token is B-<Class> or I-<Class> for a class the tag pattern knows,
\* in any casing
IsTagToken(tok) ==
    /\ Len(tok) >= 3
    /\ LowerChar(tok[1]) \in { "b", "i" }
    /\ tok[2] = "-"
    /\ \E k \in 1..Len(IOBNames) :
          Lower(SubSeq(tok, 3, Len(tok))) = IOBNames[k]

\* C21: the IOB-tag step removes only leaked tag tokens: a text none of
\* whose whitespace-delimited tokens is a tag leaves the step with all its
\* characters.
C21_OnlyTagTokens ==
    (/\ Cleaned1
     /\ \A k \in 1..Len(Split(cw_steps[1])) :
           ~IsTagToken(Split(cw_steps[1])[k])) =>
        cw_steps[2] = cw_steps[1]

=============================================================================
